---- MODULE Spec2Model ----
(***************************************************************************)
(* A model of easyrl's PPO training engine (easyrl/engine/ppo_engine.py)   *)
(* and of its advantage estimator (easyrl/utils/gae.py).                   *)
(*                                                                         *)
(* Numbers.  The program computes in floating point.  The model computes   *)
(* in exact rationals: a number is a pair <<n, d>> with d > 0 and          *)
(* gcd(n, d) = 1.  Rewards, value estimates and done flags are drawn as    *)
(* integers and converted where the code reads them.                       *)
(*                                                                         *)
(* Indices.  Python's arrays are 0-based, TLA+ sequences 1-based: step t   *)
(* of the code is element t + 1 of the model's sequences.                  *)
(*                                                                         *)
(* Optional values.  None is the empty sequence <<>> and a present value x *)
(* is <<x>>; -inf (the initial best return) is <<>> as well.               *)
(*                                                                         *)
(* Specifications.  SpecGae: one traj_preprocess / cal_gae call on drawn   *)
(* inputs.  SpecBoundary: the same, on the inputs that hold a done flag.   *)
(* SpecEval: a driver calling eval() repeatedly.  Spec: train(),           *)
(* from a fresh or a resumed engine, with the eval() calls it makes.       *)
(* SpecLive: train() under weak fairness.  SpecFault: train() with an      *)
(* agent whose optimize may raise.  SpecTrainOnce, SpecHistory: a driver   *)
(* calling train_once() on trajectories of its own.                        *)
(***************************************************************************)
EXTENDS Integers, Sequences, FiniteSets, TLC

VARIABLES
    \* ---- inputs and outputs of one traj_preprocess / cal_gae call
    gamma,              \* ppo_cfg.rew_discount
    lam,                \* ppo_cfg.gae_lambda
    rewards,            \* traj.rewards, T x N
    value_estimates,    \* vals, T x N
    last_value,         \* traj.extra_data['last_val']: None or N entries
    dones,              \* traj.dones, T x N, entries 0/1
    advs,               \* what cal_gae returned
    ret,                \* traj_preprocess: adv + vals
    gae_reads,          \* the arguments the cal_gae call read
    gae_pc              \* "input" before the call, "done" after it

gae_vars == <<gamma, lam, rewards, value_estimates, last_value, dones, advs, ret, gae_reads, gae_pc>>

VARIABLES
    \* ---- configuration and collaborators
    ppo_cfg,            \* the fields of ppo_cfg the engine reads
    num_envs,           \* the runner's number of environment slots
    \* ---- PPOEngine's fields
    cur_step,           \* self.cur_step
    best_eval_ret,      \* self._best_eval_ret: <<>> is -inf
    eval_is_best,       \* self._eval_is_best
    smooth_eval_return, \* self.smooth_eval_return: None or a number
    \* ---- train()'s position and locals
    pc,                 \* where the engine is
    iter_t,             \* train(): the iteration index
    traj,               \* train(): the trajectory of this iteration's rollout
    eval_log_info,      \* what the last eval() returned as log_info; None when skipped
    \* ---- eval()'s arguments and locals
    eval_num,           \* argument eval_num
    eval_smooth,        \* argument smooth
    eval_back,          \* where eval() returns to
    eval_idx,           \* the rollouts done so far
    rets,               \* rets
    time_steps,         \* time_steps
    eval_traj,          \* traj of the last rollout of the loop: None before the first
    \* ---- history (not program state)
    calls,              \* the calls train() made to its collaborators in this iteration
    eval_hist,          \* per finished smoothing-enabled eval(): raw mean and smoothed return
    evals_made          \* the eval() calls the driver has made

VARIABLES
    \* ---- PPOEngine's fields, continued
    train_ep_return,    \* self.train_ep_return: deque(maxlen=100)
    error,              \* the exception the running call ended with: None or its name
    \* ---- train_once()'s position and locals
    oe,                 \* the passes over the rollout dataset done so far
    pending,            \* the minibatches the DataLoader has yet to yield in this pass
    train_back,         \* where train_once() returns to
    \* ---- history (not program state)
    pass_batches,       \* the minibatches optimized so far in this pass
    all_returns,        \* every completed-episode return the runner has reported, in order
    steps_sum,          \* the sum of total_steps of the training trajectories so far
    start_step,         \* cur_step when __init__ returned
    trains_made         \* the train_once() calls the driver has made

once_vars == <<oe, pending, train_back, pass_batches>>

seen_vars == <<all_returns, steps_sum, start_step, trains_made>>

eng_vars == <<ppo_cfg, num_envs, cur_step, best_eval_ret, eval_is_best, smooth_eval_return,
              pc, iter_t, traj, eval_log_info, eval_num, eval_smooth, eval_back, eval_idx,
              rets, time_steps, eval_traj, calls, eval_hist, evals_made,
              train_ep_return, error, once_vars, seen_vars>>

vars == <<gae_vars, eng_vars>>

\* ------------------------------------------------------------------------
\* Bounds of the advantage-estimator inputs
\* ------------------------------------------------------------------------
MaxT == 3
MaxN == 2
MaxCells == 4

\* Bounds of the engine
MaxEvalCells == 2
MaxEvalCalls == 3
MaxSteps == 3

\* ------------------------------------------------------------------------
\* Exact rational arithmetic (the model's stand-in for Python floats)
\* ------------------------------------------------------------------------
Abs(x) == IF x < 0 THEN -x ELSE x

RECURSIVE GCD(_, _)
\* Euclid's algorithm; the remainder is bound before the recursive call, so
\* that it is computed once
GCD(a, b) == IF b = 0 THEN a ELSE CHOOSE g \in {GCD(b, r) : r \in {a % b}} : TRUE

Norm(n, d) ==
    LET g == GCD(Abs(n), d)
    IN  <<n \div g, d \div g>>

R(i) == <<i, 1>>
Frac(n, d) == Norm(n, d)
RAdd(x, y) == Norm(x[1] * y[2] + y[1] * x[2], x[2] * y[2])
RSub(x, y) == Norm(x[1] * y[2] - y[1] * x[2], x[2] * y[2])
RMul(x, y) == Norm(x[1] * y[1], x[2] * y[2])
RLt(x, y) == x[1] * y[2] < y[1] * x[2]

None == <<>>
Some(x) == <<x>>

\* ------------------------------------------------------------------------
\* cal_gae (easyrl/utils/gae.py)
\* ------------------------------------------------------------------------
\* np.zeros_like(rewards)
zeros_like(a) == [t \in 1..Len(a) |-> [e \in 1..Len(a[t]) |-> R(0)]]

\* non_terminal = 1.0 - dones[t], for one slot
non_terminal(done) == RSub(R(1), R(done))

\* delta = rewards[t] + gamma * value_estimates[t + 1] * non_terminal - value_estimates[t]
delta_no_mask(g, reward, v_next, v, nt) ==
    RSub(RAdd(R(reward), RMul(g, R(v_next))), R(v))

delta_no_discount(g, reward, v_next, v, nt) ==
    RSub(RAdd(R(reward), RMul(R(v_next), nt)), R(v))

delta(g, reward, v_next, v, nt) ==
    RSub(RAdd(R(reward), RMul(RMul(g, R(v_next)), nt)), R(v))

\* last_gae_lam = delta + gamma * lam * non_terminal * last_gae_lam
gae_lam_truncated(g, l, dlt, nt, last_gae_lam) == dlt

gae_lam_no_mask(g, l, dlt, nt, last_gae_lam) ==
    RAdd(dlt, RMul(RMul(g, l), last_gae_lam))

gae_lam(g, l, dlt, nt, last_gae_lam) ==
    RAdd(dlt, RMul(RMul(RMul(g, l), nt), last_gae_lam))

\* for t in reversed(range(rewards.shape[0])): ... advs[t] = last_gae_lam.copy()
\* vals is value_estimates with last_value appended as row T + 1.
RECURSIVE gae_loop(_, _, _, _, _, _, _, _)
gae_loop(t, g, l, rew, vals, dn, last_gae_lam, out) ==
    IF t = 0 THEN out
    ELSE LET new == [e \in 1..Len(rew[t]) |->
                        LET nt == non_terminal(dn[t][e])
                        IN  gae_lam(g, l,
                                    delta(g, rew[t][e], vals[t + 1][e], vals[t][e], nt),
                                    nt, last_gae_lam[e])]
         IN  gae_loop(t - 1, g, l, rew, vals, dn, new, [out EXCEPT ![t] = new])

cal_gae_none_as_zero(g, l, rew, vals, last, dn) ==
    LET lv == IF last = None THEN [e \in 1..Len(rew[1]) |-> 0] ELSE last[1]
    IN  gae_loop(Len(rew), g, l, rew, Append(vals, lv), dn,
                 [e \in 1..Len(lv) |-> R(0)], zeros_like(rew))

cal_gae(g, l, rew, vals, last, dn) ==
    IF last = None
    THEN zeros_like(rew)
    ELSE gae_loop(Len(rew), g, l, rew, Append(vals, last[1]), dn,
                  [e \in 1..Len(last[1]) |-> R(0)], zeros_like(rew))

\* The arguments a cal_gae call reads: rewards (zeros_like) and last_value (the
\* None test) always, value_estimates and dones only past the early return.
cal_gae_reads(last) ==
    IF last = None
    THEN {"rewards", "last_value"}
    ELSE {"rewards", "last_value", "value_estimates", "dones"}

\* traj_preprocess: adv = self.cal_advantages(traj); ret = adv + vals
traj_ret(adv, vals) ==
    [t \in 1..Len(adv) |-> [e \in 1..Len(adv[t]) |-> RAdd(adv[t][e], R(vals[t][e]))]]


\* ------------------------------------------------------------------------
\* The engine is not running (the estimator is checked on its own)
\* ------------------------------------------------------------------------
NegInf == <<>>

\* self._best_eval_ret = -np.inf, whether or not a model is loaded afterwards
init_best_eval_ret_restored == IF ppo_cfg.resume THEN Some(R(15)) ELSE NegInf

init_best_eval_ret == NegInf

NoTraj == [total_steps |-> 0, n_samples |-> 0, episode_returns |-> <<>>]

Call(op, flag, step) == [op |-> op, flag |-> flag, step |-> step]

EngineIdle ==
    /\ ppo_cfg = [eval_interval |-> 1, log_interval |-> 1, max_steps |-> 0,
                  linear_decay_lr |-> FALSE, linear_decay_clip_range |-> FALSE,
                  smooth_eval_tau |-> Frac(7, 10), resume |-> FALSE,
                  opt_epochs |-> 1, batch_size |-> 1, episode_steps |-> 1]
    /\ num_envs = 1
    /\ cur_step = 0
    /\ best_eval_ret = init_best_eval_ret
    /\ eval_is_best = FALSE
    /\ smooth_eval_return = None
    /\ pc = "idle"
    /\ iter_t = 0
    /\ traj = NoTraj
    /\ eval_log_info = None
    /\ eval_num = 0
    /\ eval_smooth = FALSE
    /\ eval_back = "idle"
    /\ eval_idx = 0
    /\ rets = <<>>
    /\ time_steps = <<>>
    /\ eval_traj = None
    /\ calls = <<>>
    /\ eval_hist = <<>>
    /\ evals_made = 0
    /\ train_ep_return = <<>>
    /\ error = None
    /\ oe = 0
    /\ pending = <<>>
    /\ train_back = "idle"
    /\ pass_batches = <<>>
    /\ all_returns = <<>>
    /\ steps_sum = 0
    /\ start_step = cur_step
    /\ trains_made = 0

GaeIdle ==
    /\ gamma = R(0)
    /\ lam = R(0)
    /\ rewards = <<>>
    /\ value_estimates = <<>>
    /\ last_value = None
    /\ dones = <<>>
    /\ advs = <<>>
    /\ ret = <<>>
    /\ gae_reads = {}
    /\ gae_pc = "idle"

\* ------------------------------------------------------------------------
\* The estimator's inputs
\* ------------------------------------------------------------------------
Discounts == {R(0), Frac(1, 2), R(1)}
Lambdas == {R(0), Frac(1, 2), R(1)}
RewardVals == {0, 1}
ValueVals == {0, 2}
DoneVals == {0, 1}

Shapes == {sh \in (1..MaxT) \X (1..MaxN) : sh[1] * sh[2] <= MaxCells}

InitGae ==
    /\ gamma \in Discounts
    /\ lam \in Lambdas
    /\ \E sh \in Shapes :
          /\ rewards \in [1..sh[1] -> [1..sh[2] -> RewardVals]]
          /\ value_estimates \in [1..sh[1] -> [1..sh[2] -> ValueVals]]
          /\ dones \in [1..sh[1] -> [1..sh[2] -> DoneVals]]
          /\ last_value \in {None} \cup {Some(v) : v \in [1..sh[2] -> ValueVals]}
    /\ advs = <<>>
    /\ ret = <<>>
    /\ gae_reads = {}
    /\ gae_pc = "input"
    /\ EngineIdle

\* PPOEngine.traj_preprocess up to the return targets, with cal_advantages and
\* the cal_gae call it makes.
TrajPreprocess ==
    /\ gae_pc = "input"
    /\ advs' = cal_gae(gamma, lam, rewards, value_estimates, last_value, dones)
    /\ gae_reads' = cal_gae_reads(last_value)
    /\ ret' = traj_ret(advs', value_estimates)
    /\ gae_pc' = "done"
    /\ UNCHANGED <<gamma, lam, rewards, value_estimates, last_value, dones>>
    /\ UNCHANGED eng_vars

NextGae == TrajPreprocess

SpecGae == InitGae /\ [][NextGae]_vars

\* ------------------------------------------------------------------------
\* Claims about cal_gae (checked under SpecGae)
\* ------------------------------------------------------------------------
GaeT == Len(rewards)
GaeN == Len(rewards[1])
GaeDone == gae_pc = "done"

RECURSIVE RPow(_, _)
RPow(x, k) == IF k = 0 THEN R(1) ELSE RMul(x, RPow(x, k - 1))

\* sum over k in t..T of gamma^(k - t) * rewards[k][e]
RECURSIVE DiscountedRewards(_, _, _)
DiscountedRewards(t, k, e) ==
    IF k > GaeT THEN R(0)
    ELSE RAdd(RMul(RPow(gamma, k - t), R(rewards[k][e])), DiscountedRewards(t, k + 1, e))

\* C1: with a last_value of N entries, the returned advantages satisfy the
\* backward recurrence advantages[t] = rewards[t] + gamma * values[t+1] *
\* (1 - dones[t]) - values[t] + gamma * lambda * (1 - dones[t]) *
\* advantages[t+1], where values[T] = last_value and the last term is 0 at
\* the final step, for every step and every slot.
C1_GaeRecurrence ==
    (GaeDone /\ last_value # None) =>
        /\ Len(advs) = GaeT
        /\ \A t \in 1..GaeT :
              /\ Len(advs[t]) = GaeN
              /\ \A e \in 1..GaeN :
                    LET nt   == 1 - dones[t][e]
                        next == IF t = GaeT THEN last_value[1][e] ELSE value_estimates[t + 1][e]
                        run  == IF t = GaeT THEN R(0) ELSE advs[t + 1][e]
                    IN  advs[t][e] =
                            RAdd(RSub(RAdd(R(rewards[t][e]), RMul(gamma, R(next * nt))),
                                      R(value_estimates[t][e])),
                                 RMul(RMul(gamma, lam), RMul(R(nt), run)))

C1_Witness ==
    /\ GaeDone
    /\ last_value # None
    /\ GaeT = 2 /\ GaeN = 2
    /\ gamma = Frac(1, 2) /\ lam = Frac(1, 2)
    /\ dones[1][1] = 0 /\ dones[1][2] = 1
    /\ rewards[2][1] = 1 /\ last_value[1][1] = 2
    /\ advs[1][1] # advs[1][2]

\* C2: when last_value is None the result has the shape of rewards and every
\* entry is zero, whatever the other arguments, and the call has read neither
\* the value estimates nor the dones.
C2_NoBootstrapAllZero ==
    (GaeDone /\ last_value = None) =>
        /\ Len(advs) = GaeT
        /\ \A t \in 1..GaeT :
              /\ Len(advs[t]) = Len(rewards[t])
              /\ \A e \in 1..GaeN : advs[t][e] = R(0)
        /\ gae_reads \cap {"value_estimates", "dones"} = {}

C2_Witness ==
    /\ GaeDone
    /\ last_value = None
    /\ GaeT = 2 /\ GaeN = 2
    /\ gamma = R(1) /\ lam = R(1)
    /\ \A t \in 1..2 : \A e \in 1..2 :
          rewards[t][e] = 1 /\ value_estimates[t][e] = 2 /\ dones[t][e] = 0
    /\ advs = <<<<R(0), R(0)>>, <<R(0), R(0)>>>>

\* C3: with lambda = 1 and no done flag set, the advantage at every step is the
\* untruncated discounted sum of the future rewards plus the discounted
\* last_value minus the value estimate of the step; and the scenario T = 3, one
\* slot, gamma = 1, rewards [1,1,1], values [0,0,0], last_value [0] gives
\* advantages [3,2,1] and return targets [3,2,1].
C3Scenario ==
    /\ gamma = R(1) /\ lam = R(1)
    /\ rewards = <<<<1>>, <<1>>, <<1>>>>
    /\ value_estimates = <<<<0>>, <<0>>, <<0>>>>
    /\ dones = <<<<0>>, <<0>>, <<0>>>>
    /\ last_value = Some(<<0>>)

C3_LambdaOneMonteCarlo ==
    /\ (/\ GaeDone
        /\ last_value # None
        /\ lam = R(1)
        /\ \A t \in 1..GaeT : \A e \in 1..GaeN : dones[t][e] = 0)
       => \A t \in 1..GaeT : \A e \in 1..GaeN :
             advs[t][e] =
                 RSub(RAdd(DiscountedRewards(t, t, e),
                           RMul(RPow(gamma, GaeT - t + 1), R(last_value[1][e]))),
                      R(value_estimates[t][e]))
    /\ (GaeDone /\ C3Scenario)
       => /\ advs = <<<<R(3)>>, <<R(2)>>, <<R(1)>>>>
          /\ ret = <<<<R(3)>>, <<R(2)>>, <<R(1)>>>>

C3_Witness ==
    /\ GaeDone
    /\ C3Scenario
    /\ advs = <<<<R(3)>>, <<R(2)>>, <<R(1)>>>>

\* C4: with gamma = 0 and a last_value that is not None, the advantage at every
\* step and slot is rewards[t] - values[t], for every lambda, dones and
\* last_value.
C4_GammaZeroOneStep ==
    (GaeDone /\ last_value # None /\ gamma = R(0)) =>
        \A t \in 1..GaeT : \A e \in 1..GaeN :
            advs[t][e] = R(rewards[t][e] - value_estimates[t][e])

C4_Witness ==
    /\ GaeDone
    /\ last_value = Some(<<2, 2>>)
    /\ gamma = R(0) /\ lam = R(1)
    /\ GaeT = 2
    /\ dones = <<<<0, 1>>, <<0, 0>>>>
    /\ rewards = <<<<1, 0>>, <<1, 1>>>>
    /\ value_estimates = <<<<2, 2>>, <<2, 0>>>>
    /\ advs = <<<<R(-1), R(-2)>>, <<R(-1), R(1)>>>>

\* C21: cal_gae carries nothing across an episode boundary.  Where dones[t]
\* is set for a slot, the advantages of that slot at the steps <= t are fixed
\* by the rewards, values and dones of that slot at the steps <= t.  Inputs
\* that agree there are compared: the input of the state, an input that
\* differs from it in every other cell and in last_value (AwayFrom, AwayLast),
\* and the slot's own steps 1..t alone (SlotPrefix) with the other last_value.
\* Checked under SpecBoundary.
\* the inputs that hold an episode boundary
InitBoundary ==
    /\ InitGae
    /\ \E t \in 1..Len(dones) : \E e \in 1..Len(dones[t]) : dones[t][e] = 1

SpecBoundary == InitBoundary /\ [][NextGae]_vars

Boundaries == {b \in (1..GaeT) \X (1..GaeN) : dones[b[1]][b[2]] = 1}

Differing(vals, x) == CHOOSE y \in vals : y # x

AwayFrom(arr, t, e, vals) ==
    [s \in 1..Len(arr) |->
        [k \in 1..Len(arr[s]) |->
            IF k = e /\ s <= t THEN arr[s][k] ELSE Differing(vals, arr[s][k])]]

AwayLast ==
    IF last_value = None THEN Some([k \in 1..GaeN |-> Differing(ValueVals, 0)])
    ELSE Some([k \in 1..GaeN |-> Differing(ValueVals, last_value[1][k])])

SlotPrefix(arr, t, e) == [s \in 1..t |-> <<arr[s][e]>>]

\* the advantages of slot e at the steps <= t are those of the other inputs
SameUpTo(t, e, lasts, lone_lasts) ==
    /\ \A other \in lasts :
           LET alt == cal_gae(gamma, lam, AwayFrom(rewards, t, e, RewardVals),
                              AwayFrom(value_estimates, t, e, ValueVals), other,
                              AwayFrom(dones, t, e, DoneVals))
           IN  \A s \in 1..t : alt[s][e] = advs[s][e]
    /\ \A lone \in lone_lasts :
           LET alone == cal_gae(gamma, lam, SlotPrefix(rewards, t, e),
                                SlotPrefix(value_estimates, t, e), lone,
                                SlotPrefix(dones, t, e))
           IN  \A s \in 1..t : alone[s][1] = advs[s][e]

\* C21 as stated: for every last_value, None included.
C21_Original ==
    GaeDone =>
        \A b \in Boundaries :
            /\ advs[b[1]][b[2]] =
                   R(rewards[b[1]][b[2]] - value_estimates[b[1]][b[2]])
            /\ SameUpTo(b[1], b[2], {None, AwayLast},
                        {None, Some(<<AwayLast[1][b[2]]>>)})

\* C21 (amended): the same, for calls and inputs whose last_value is not None.
C21_NoLeakAcrossDone ==
    (GaeDone /\ last_value # None) =>
        \A b \in Boundaries :
            /\ advs[b[1]][b[2]] =
                   R(rewards[b[1]][b[2]] - value_estimates[b[1]][b[2]])
            /\ SameUpTo(b[1], b[2], {AwayLast},
                        {Some(<<AwayLast[1][b[2]]>>)})

C21_Witness ==
    /\ GaeDone
    /\ last_value = Some(<<2>>)
    /\ gamma = Frac(1, 2) /\ lam = Frac(1, 2)
    /\ GaeT = 3
    /\ dones = <<<<0>>, <<1>>, <<0>>>>
    /\ rewards = <<<<1>>, <<1>>, <<1>>>>
    /\ value_estimates = <<<<0>>, <<2>>, <<2>>>>
    /\ advs[3][1] = R(0)
    /\ advs[2][1] = R(-1)
    /\ advs[1][1] = Frac(7, 4)

\* ------------------------------------------------------------------------
\* PPOEngine.eval (easyrl/engine/ppo_engine.py)
\* ------------------------------------------------------------------------
RECURSIVE SeqSum(_)
SeqSum(q) == IF q = <<>> THEN 0 ELSE q[1] + SeqSum(Tail(q))

Min(a, b) == IF a < b THEN a ELSE b

\* get_list_stats(val)['mean'] (easyrl/utils/common.py): the arithmetic mean
get_list_stats_mean(val) == Frac(SeqSum(val), Len(val))

\* ret = np.sum(rewards[:tsps[ej], ej])
episode_return_all_steps(raw_rewards, tsps, ej) ==
    SeqSum([t \in 1..Len(raw_rewards) |-> raw_rewards[t][ej]])

episode_return(raw_rewards, tsps, ej) ==
    SeqSum([t \in 1..Min(tsps[ej], Len(raw_rewards)) |-> raw_rewards[t][ej]])

\* self.smooth_eval_return after the update of lines 108-112
smooth_return_swapped(prev, tau, mean) ==
    IF prev = None THEN mean
    ELSE RAdd(RMul(prev[1], RSub(R(1), tau)), RMul(tau, mean))

smooth_return(prev, tau, mean) ==
    IF prev = None THEN mean
    ELSE RAdd(RMul(prev[1], tau), RMul(RSub(R(1), tau), mean))

\* self.smooth_eval_return > self._best_eval_ret
exceeds_best_or_equal(smoothed, best) == best = NegInf \/ ~RLt(smoothed, best[1])

exceeds_best(smoothed, best) == best = NegInf \/ RLt(best[1], smoothed)

\* What the runner can return for an evaluation rollout of n slots: T steps of
\* raw rewards and, per slot, the number of valid steps.
EvalRewardVals == {10, 20}

\* traj.rewards, the rewards the training reads: the raw rewards, clipped
RewardClip == 10

shaped_rewards(raw_rewards) ==
    [t \in 1..Len(raw_rewards) |->
        [e \in 1..Len(raw_rewards[t]) |-> Min(raw_rewards[t][e], RewardClip)]]

EvalTrajs(n, maxT) ==
    UNION {{[num_envs |-> n,
             raw_rewards |-> rr,
             rewards |-> shaped_rewards(rr),
             steps_til_done |-> st,
             total_steps |-> T * n,
             episode_returns |-> [e \in 1..n |->
                                    IF st[e] > 0 THEN <<episode_return(rr, st, e)>>
                                    ELSE <<>>]] :
               rr \in [1..T -> [1..n -> EvalRewardVals]], st \in [1..n -> 0..T]} :
           T \in 1..maxT}

\* eval() is entered: its locals are fresh.
EvalEnter(k, sm, back) ==
    /\ eval_num' = k
    /\ eval_smooth' = sm
    /\ eval_back' = back
    /\ eval_idx' = 0
    /\ rets' = <<>>
    /\ time_steps' = <<>>
    /\ eval_traj' = None
    /\ pc' = "eval"

\* One pass of the loop of lines 78-95: rollout_once(time_steps=episode_steps,
\* return_on_done=True, evaluation=True), then the return and the length of every
\* slot's episode.  One eval() call reads at most MaxEvalCells reward cells.
EvalRollout_counting ==
    /\ pc = "eval"
    /\ eval_idx < eval_num
    /\ \E tr \in EvalTrajs(num_envs, Min(ppo_cfg.episode_steps,
                                           MaxEvalCells \div (eval_num * num_envs))) :
          LET tsps == tr.steps_til_done
          IN  /\ rets' = rets \o [ej \in 1..tr.num_envs |->
                                     episode_return(tr.raw_rewards, tsps, ej)]
              /\ time_steps' = time_steps \o tsps
              /\ eval_traj' = Some(tr)
              /\ cur_step' = cur_step + tr.total_steps
    /\ eval_idx' = eval_idx + 1
    /\ calls' = calls \o <<Call("eval_mode", FALSE, cur_step),
                           Call("runner", TRUE, cur_step)>>
    /\ UNCHANGED <<ppo_cfg, num_envs, best_eval_ret, eval_is_best,
                   smooth_eval_return, pc, iter_t, traj, eval_log_info, eval_num,
                   eval_smooth, eval_back, eval_hist, evals_made>>
    /\ UNCHANGED <<train_ep_return, error, once_vars, seen_vars>>
    /\ UNCHANGED gae_vars

EvalRollout ==
    /\ pc = "eval"
    /\ eval_idx < eval_num
    /\ \E tr \in EvalTrajs(num_envs, Min(ppo_cfg.episode_steps,
                                           MaxEvalCells \div (eval_num * num_envs))) :
          LET tsps == tr.steps_til_done
          IN  /\ rets' = rets \o [ej \in 1..tr.num_envs |->
                                     episode_return(tr.raw_rewards, tsps, ej)]
              /\ time_steps' = time_steps \o tsps
              /\ eval_traj' = Some(tr)
    /\ eval_idx' = eval_idx + 1
    /\ calls' = calls \o <<Call("eval_mode", FALSE, cur_step),
                           Call("runner", TRUE, cur_step)>>
    /\ UNCHANGED <<ppo_cfg, num_envs, cur_step, best_eval_ret, eval_is_best,
                   smooth_eval_return, pc, iter_t, traj, eval_log_info, eval_num,
                   eval_smooth, eval_back, eval_hist, evals_made>>
    /\ UNCHANGED <<train_ep_return, error, once_vars, seen_vars>>
    /\ UNCHANGED gae_vars

\* Lines 97-119: the statistics, the smoothing and the best flag.
EvalFinish ==
    /\ pc = "eval"
    /\ eval_idx = eval_num
    /\ LET mean     == get_list_stats_mean(rets)
           smoothed == smooth_return(smooth_eval_return, ppo_cfg.smooth_eval_tau, mean)
       IN  IF eval_smooth
           THEN /\ smooth_eval_return' = Some(smoothed)
                /\ eval_is_best' = exceeds_best(smoothed, best_eval_ret)
                /\ best_eval_ret' = IF exceeds_best(smoothed, best_eval_ret)
                                    THEN Some(smoothed) ELSE best_eval_ret
                /\ eval_log_info' = Some([mean |-> mean, smooth |-> Some(smoothed)])
                /\ eval_hist' = Append(eval_hist, [mean |-> mean, smooth |-> smoothed])
           ELSE /\ eval_log_info' = Some([mean |-> mean, smooth |-> None])
                /\ UNCHANGED <<smooth_eval_return, eval_is_best, best_eval_ret, eval_hist>>
    /\ pc' = eval_back
    /\ rets' = <<>>
    /\ time_steps' = <<>>
    /\ eval_traj' = None
    /\ UNCHANGED <<ppo_cfg, num_envs, cur_step, iter_t, traj, eval_num, eval_smooth,
                   eval_back, eval_idx, calls, evals_made>>
    /\ UNCHANGED <<train_ep_return, error, once_vars, seen_vars>>
    /\ UNCHANGED gae_vars

\* A driver (test mode, a script) calls engine.eval(eval_num=k, smooth=sm).
DriverEval ==
    /\ pc = "idle"
    /\ evals_made < MaxEvalCalls
    /\ \E k \in 1..(MaxEvalCells \div num_envs), sm \in BOOLEAN :
          EvalEnter(k, sm, "idle")
    /\ evals_made' = evals_made + 1
    /\ calls' = <<Call("eval", FALSE, cur_step)>>
    /\ UNCHANGED <<ppo_cfg, num_envs, cur_step, best_eval_ret, eval_is_best,
                   smooth_eval_return, iter_t, traj, eval_log_info, eval_hist>>
    /\ UNCHANGED <<train_ep_return, error, once_vars, seen_vars>>
    /\ UNCHANGED gae_vars

SmoothTaus == {Frac(7, 10)}

\* PPOEngine.__init__, then nothing but eval() calls.
InitEval ==
    /\ GaeIdle
    /\ \E tau \in SmoothTaus :
          ppo_cfg = [eval_interval |-> 1, log_interval |-> 1, max_steps |-> 0,
                     linear_decay_lr |-> FALSE, linear_decay_clip_range |-> FALSE,
                     smooth_eval_tau |-> tau, resume |-> FALSE,
                     opt_epochs |-> 1, batch_size |-> 1,
                     episode_steps |-> MaxEvalCells]
    /\ num_envs \in 1..MaxEvalCells
    /\ cur_step = 0
    /\ best_eval_ret = init_best_eval_ret
    /\ eval_is_best = FALSE
    /\ smooth_eval_return = None
    /\ pc = "idle"
    /\ iter_t = 0
    /\ traj = NoTraj
    /\ eval_log_info = None
    /\ eval_num = 0
    /\ eval_smooth = FALSE
    /\ eval_back = "idle"
    /\ eval_idx = 0
    /\ rets = <<>>
    /\ time_steps = <<>>
    /\ eval_traj = None
    /\ calls = <<>>
    /\ eval_hist = <<>>
    /\ evals_made = 0
    /\ train_ep_return = <<>>
    /\ error = None
    /\ oe = 0
    /\ pending = <<>>
    /\ train_back = "idle"
    /\ pass_batches = <<>>
    /\ all_returns = <<>>
    /\ steps_sum = 0
    /\ start_step = cur_step
    /\ trains_made = 0

NextEval == DriverEval \/ EvalRollout \/ EvalFinish

SpecEval == InitEval /\ [][NextEval]_vars

\* ------------------------------------------------------------------------
\* PPOEngine.train (easyrl/engine/ppo_engine.py)
\* ------------------------------------------------------------------------
\* iter_t % ppo_cfg.eval_interval == 0
eval_due_off_by_one(i) == (i + 1) % ppo_cfg.eval_interval = 0

eval_due(i) == i % ppo_cfg.eval_interval = 0

\* iter_t % ppo_cfg.log_interval == 0
log_due_off_by_one(i) == (i + 1) % ppo_cfg.log_interval = 0

log_due(i) == i % ppo_cfg.log_interval = 0

\* self.cur_step > ppo_cfg.max_steps
stop_now_at_budget == cur_step >= ppo_cfg.max_steps

stop_now_late == cur_step > ppo_cfg.max_steps + 2

stop_now == cur_step > ppo_cfg.max_steps

\* the minibatches of one pass of the DataLoader over n samples
num_batches_floor(n, b) == n \div b

num_batches(n, b) == (n + b - 1) \div b

\* What the runner can return for a training rollout, as far as the engine
\* reads it: total_steps, and the number of samples of the rollout dataset
\* (every collected step is one sample).
TrainTotalSteps == {1, 2}

\* traj.episode_returns: per slot, the returns of the episodes that slot
\* completed during the rollout.  A return is named by its arrival number, so
\* that the entries of the history can be told apart.  Here a rollout of two
\* steps completes one episode in slot 0 and a shorter one completes none.
train_episode_returns(n) ==
    [e \in 1..num_envs |-> IF e = 1 /\ n = 2 THEN <<Len(all_returns) + 1>> ELSE <<>>]

TrainTrajs ==
    {[total_steps |-> n, n_samples |-> n, episode_returns |-> train_episode_returns(n)] :
        n \in TrainTotalSteps}

\* chain(*traj.episode_returns): the slots' lists, one after the other
RECURSIVE chain(_)
chain(lists) == IF lists = <<>> THEN <<>> ELSE Head(lists) \o chain(Tail(lists))

\* deque(maxlen=100)
maxlen == 100

\* self.train_ep_return.append(epr)
deque_append_unbounded(dq, epr) == Append(dq, epr)

deque_append(dq, epr) ==
    IF Len(dq) >= maxlen THEN Append(Tail(dq), epr) ELSE Append(dq, epr)

\* for epr in ep_returns: self.train_ep_return.append(epr)
RECURSIVE deque_extend(_, _)
deque_extend(dq, ep_returns) ==
    IF ep_returns = <<>> THEN dq
    ELSE deque_extend(deque_append(dq, Head(ep_returns)), Tail(ep_returns))

\* The orders in which a shuffling DataLoader can visit samples 1..n
Perms(n) == {p \in [1..n -> 1..n] : \A i, j \in 1..n : i # j => p[i] # p[j]}

\* The minibatches of one pass in the order p: batch_size samples each, the
\* last one holding the remainder (drop_last is left at False)
batches_of(p, b) ==
    [k \in 1..num_batches(Len(p), b) |->
        {p[i] : i \in ((k - 1) * b + 1)..Min(k * b, Len(p))}]

\* iter(rollout_dataloader): DataLoader(dataset, batch_size=..., shuffle=True)
dataloader_passes(n, b) == {batches_of(p, b) : p \in Perms(n)}

\* rollout_once(sample=..., time_steps=...): eval_mode, then the runner.
RolloutOnce ==
    /\ pc = "rollout"
    /\ traj' \in TrainTrajs
    /\ calls' = <<Call("eval_mode", FALSE, cur_step), Call("runner", FALSE, cur_step)>>
    /\ all_returns' = all_returns \o chain(traj'.episode_returns)
    /\ steps_sum' = steps_sum + traj'.total_steps
    /\ pc' = "train_once"
    /\ train_back' = "eval_or_skip"
    /\ UNCHANGED <<ppo_cfg, num_envs, cur_step, best_eval_ret, eval_is_best,
                   smooth_eval_return, iter_t, eval_log_info, eval_num, eval_smooth,
                   eval_back, eval_idx, rets, time_steps, eval_hist, evals_made>>
    /\ UNCHANGED <<eval_traj, train_ep_return, error, oe, pending, pass_batches,
                   start_step, trains_made>>
    /\ UNCHANGED gae_vars

\* self.cur_step += traj.total_steps
cur_step_plus_one(tr) == cur_step + 1

cur_step_plus(tr) == cur_step + tr.total_steps

\* train_once(traj), lines 130-133: the step counter, then traj_preprocess
\* computes the advantages (cal_gae) and builds the rollout DataLoader.
TrainOnce ==
    /\ pc = "train_once"
    /\ cur_step' = cur_step_plus(traj)
    /\ calls' = Append(calls, Call("cal_gae", FALSE, cur_step'))
    /\ oe' = 0
    /\ pending' = <<>>
    /\ pass_batches' = <<>>
    /\ pc' = "epoch"
    /\ UNCHANGED <<ppo_cfg, num_envs, best_eval_ret, eval_is_best, smooth_eval_return,
                   iter_t, traj, eval_log_info, eval_num, eval_smooth, eval_back,
                   eval_idx, rets, time_steps, eval_hist, evals_made>>
    /\ UNCHANGED <<eval_traj, train_ep_return, error, train_back, seen_vars>>
    /\ UNCHANGED gae_vars

\* Lines 134-135: one more pass, the DataLoader is iterated anew.
EpochBegin ==
    /\ pc = "epoch"
    /\ oe < ppo_cfg.opt_epochs
    /\ pending' \in dataloader_passes(traj.n_samples, ppo_cfg.batch_size)
    /\ pass_batches' = <<>>
    /\ pc' = "optimize"
    /\ UNCHANGED <<ppo_cfg, num_envs, cur_step, best_eval_ret, eval_is_best,
                   smooth_eval_return, iter_t, traj, eval_log_info, eval_num, eval_smooth,
                   eval_back, eval_idx, rets, time_steps, eval_hist, evals_made>>
    /\ UNCHANGED <<eval_traj, calls, train_ep_return, error, oe, train_back, seen_vars>>
    /\ UNCHANGED gae_vars

\* Lines 136-137: optim_info = self.agent.optimize(batch_data) returns.
Optimize ==
    /\ pc = "optimize"
    /\ pending # <<>>
    /\ calls' = Append(calls, Call("optimize", FALSE, cur_step))
    /\ pass_batches' = Append(pass_batches, Head(pending))
    /\ pending' = Tail(pending)
    /\ UNCHANGED <<ppo_cfg, num_envs, cur_step, best_eval_ret, eval_is_best,
                   smooth_eval_return, pc, iter_t, traj, eval_log_info, eval_num,
                   eval_smooth, eval_back, eval_idx, rets, time_steps, eval_hist,
                   evals_made>>
    /\ UNCHANGED <<eval_traj, train_ep_return, error, oe, train_back, seen_vars>>
    /\ UNCHANGED gae_vars

\* The DataLoader is exhausted: the pass is over.
EpochEnd ==
    /\ pc = "optimize"
    /\ pending = <<>>
    /\ oe' = oe + 1
    /\ pc' = "epoch"
    /\ UNCHANGED <<ppo_cfg, num_envs, cur_step, best_eval_ret, eval_is_best,
                   smooth_eval_return, iter_t, traj, eval_log_info, eval_num, eval_smooth,
                   eval_back, eval_idx, rets, time_steps, eval_hist, evals_made>>
    /\ UNCHANGED <<eval_traj, calls, train_ep_return, error, pending, train_back,
                   pass_batches, seen_vars>>
    /\ UNCHANGED gae_vars

\* Line 138, get_train_log: the completed episodes' returns go into the
\* history (lines 194-196); train_once returns.
GetTrainLog_then_log ==
    /\ pc = "epoch"
    /\ oe = ppo_cfg.opt_epochs
    /\ train_ep_return' = deque_extend(train_ep_return, chain(traj.episode_returns))
    /\ pass_batches' = <<>>
    /\ calls' = IF log_due(iter_t)
                THEN Append(calls, Call("save_dict", FALSE, cur_step))
                ELSE calls
    /\ pc' = train_back
    /\ UNCHANGED <<ppo_cfg, num_envs, cur_step, best_eval_ret, eval_is_best,
                   smooth_eval_return, iter_t, traj, eval_log_info, eval_num, eval_smooth,
                   eval_back, eval_idx, rets, time_steps, eval_hist, evals_made>>
    /\ UNCHANGED <<eval_traj, error, oe, pending, train_back, seen_vars>>
    /\ UNCHANGED gae_vars

GetTrainLog ==
    /\ pc = "epoch"
    /\ oe = ppo_cfg.opt_epochs
    /\ train_ep_return' = deque_extend(train_ep_return, chain(traj.episode_returns))
    /\ pass_batches' = <<>>
    /\ pc' = train_back
    /\ UNCHANGED <<ppo_cfg, num_envs, cur_step, best_eval_ret, eval_is_best,
                   smooth_eval_return, iter_t, traj, eval_log_info, eval_num, eval_smooth,
                   eval_back, eval_idx, rets, time_steps, eval_hist, evals_made>>
    /\ UNCHANGED <<eval_traj, calls, error, oe, pending, train_back, seen_vars>>
    /\ UNCHANGED gae_vars

\* Line 46-47: the iteration is due for an evaluation, eval() is called.
TrainEval ==
    /\ pc = "eval_or_skip"
    /\ eval_due(iter_t)
    /\ EvalEnter(1, TRUE, "save_model")
    /\ calls' = Append(calls, Call("eval", FALSE, cur_step))
    /\ UNCHANGED <<ppo_cfg, num_envs, cur_step, best_eval_ret, eval_is_best,
                   smooth_eval_return, iter_t, traj, eval_log_info, eval_hist, evals_made>>
    /\ UNCHANGED <<train_ep_return, error, once_vars, seen_vars>>
    /\ UNCHANGED gae_vars

\* Line 50-51: no evaluation in this iteration.
TrainSkipEval ==
    /\ pc = "eval_or_skip"
    /\ ~eval_due(iter_t)
    /\ eval_log_info' = None
    /\ pc' = "log"
    /\ UNCHANGED <<ppo_cfg, num_envs, cur_step, best_eval_ret, eval_is_best,
                   smooth_eval_return, iter_t, traj, eval_num, eval_smooth, eval_back,
                   eval_idx, rets, time_steps, calls, eval_hist, evals_made>>
    /\ UNCHANGED <<eval_traj, train_ep_return, error, once_vars, seen_vars>>
    /\ UNCHANGED gae_vars

\* Line 48-49: agent.save_model(is_best=self._eval_is_best, step=self.cur_step)
SaveModel ==
    /\ pc = "save_model"
    /\ calls' = Append(calls, Call("save_model", eval_is_best, cur_step))
    /\ pc' = "log"
    /\ UNCHANGED <<ppo_cfg, num_envs, cur_step, best_eval_ret, eval_is_best,
                   smooth_eval_return, iter_t, traj, eval_log_info, eval_num, eval_smooth,
                   eval_back, eval_idx, rets, time_steps, eval_hist, evals_made>>
    /\ UNCHANGED <<eval_traj, train_ep_return, error, once_vars, seen_vars>>
    /\ UNCHANGED gae_vars

\* Lines 52-61: the record of this iteration; flag tells whether it holds the
\* evaluation statistics (eval_log_info is not None).
Log ==
    /\ pc = "log"
    /\ calls' = IF log_due(iter_t)
                THEN Append(calls, Call("save_dict", eval_log_info # None, cur_step))
                ELSE calls
    /\ pc' = "check_stop"
    /\ UNCHANGED <<ppo_cfg, num_envs, cur_step, best_eval_ret, eval_is_best,
                   smooth_eval_return, iter_t, traj, eval_log_info, eval_num, eval_smooth,
                   eval_back, eval_idx, rets, time_steps, eval_hist, evals_made>>
    /\ UNCHANGED <<eval_traj, train_ep_return, error, once_vars, seen_vars>>
    /\ UNCHANGED gae_vars

\* Lines 62-63: the stop test.
CheckStop ==
    /\ pc = "check_stop"
    /\ pc' = IF stop_now THEN "done" ELSE "decay"
    /\ UNCHANGED <<ppo_cfg, num_envs, cur_step, best_eval_ret, eval_is_best,
                   smooth_eval_return, iter_t, traj, eval_log_info, eval_num, eval_smooth,
                   eval_back, eval_idx, rets, time_steps, calls, eval_hist, evals_made>>
    /\ UNCHANGED <<eval_traj, train_ep_return, error, once_vars, seen_vars>>
    /\ UNCHANGED gae_vars

\* Lines 64-67: the decay schedules, then the next iteration.
decay_calls_unconditional ==
    <<Call("decay_lr", FALSE, cur_step), Call("decay_clip_range", FALSE, cur_step)>>

decay_calls ==
    (IF ppo_cfg.linear_decay_lr THEN <<Call("decay_lr", FALSE, cur_step)>> ELSE <<>>)
    \o (IF ppo_cfg.linear_decay_clip_range
        THEN <<Call("decay_clip_range", FALSE, cur_step)>> ELSE <<>>)

Decay ==
    /\ pc = "decay"
    /\ calls' = calls \o decay_calls
    /\ iter_t' = iter_t + 1
    /\ pc' = "rollout"
    /\ UNCHANGED <<ppo_cfg, num_envs, cur_step, best_eval_ret, eval_is_best,
                   smooth_eval_return, traj, eval_log_info, eval_num, eval_smooth,
                   eval_back, eval_idx, rets, time_steps, eval_hist, evals_made>>
    /\ UNCHANGED <<eval_traj, train_ep_return, error, once_vars, seen_vars>>
    /\ UNCHANGED gae_vars

Intervals == {1, 2}
ResumeSteps == {MaxSteps - 1, MaxSteps + 1}
TrainTaus == {Frac(7, 10)}
OptEpochs == {2}
BatchSizes == {2}
TrainEpisodeSteps == {1}
TrainEnvs == {1, 2}

\* PPOEngine.__init__ (fresh, or resumed with the step load_model returns),
\* then train().
Init ==
    /\ GaeIdle
    /\ ppo_cfg \in [eval_interval : Intervals, log_interval : Intervals,
                    max_steps : {MaxSteps - 1, MaxSteps},
                    linear_decay_lr : BOOLEAN, linear_decay_clip_range : BOOLEAN,
                    smooth_eval_tau : TrainTaus, resume : BOOLEAN,
                    opt_epochs : OptEpochs, batch_size : BatchSizes,
                    episode_steps : TrainEpisodeSteps]
    /\ num_envs \in TrainEnvs
    /\ cur_step \in IF ppo_cfg.resume THEN ResumeSteps ELSE {0}
    /\ best_eval_ret = init_best_eval_ret
    /\ eval_is_best = FALSE
    /\ smooth_eval_return = None
    /\ pc = "rollout"
    /\ iter_t = 0
    /\ traj = NoTraj
    /\ eval_log_info = None
    /\ eval_num = 0
    /\ eval_smooth = FALSE
    /\ eval_back = "idle"
    /\ eval_idx = 0
    /\ rets = <<>>
    /\ time_steps = <<>>
    /\ eval_traj = None
    /\ calls = <<>>
    /\ eval_hist = <<>>
    /\ evals_made = 0
    /\ train_ep_return = <<>>
    /\ error = None
    /\ oe = 0
    /\ pending = <<>>
    /\ train_back = "eval_or_skip"
    /\ pass_batches = <<>>
    /\ all_returns = <<>>
    /\ steps_sum = 0
    /\ start_step = cur_step
    /\ trains_made = 0

Next ==
    \/ RolloutOnce
    \/ TrainOnce
    \/ EpochBegin
    \/ Optimize
    \/ EpochEnd
    \/ GetTrainLog
    \/ TrainEval
    \/ TrainSkipEval
    \/ EvalRollout
    \/ EvalFinish
    \/ SaveModel
    \/ Log
    \/ CheckStop
    \/ Decay

Spec == Init /\ [][Next]_vars

\* train() with a runner and an agent that always return: a step that can be
\* taken is taken.  One slot, both decay schedules, a log record every second
\* iteration.
InitLive ==
    /\ Init
    /\ num_envs = 1
    /\ ppo_cfg.log_interval = 2
    /\ ppo_cfg.linear_decay_lr
    /\ ppo_cfg.linear_decay_clip_range

SpecLive == InitLive /\ [][Next]_vars /\ WF_vars(Next)

\* ------------------------------------------------------------------------
\* PPOEngine.train with an agent whose optimize may raise
\* ------------------------------------------------------------------------
\* Lines 136-137, agent.optimize raises and the loop goes on: what a handler
\* around the call would do.
OptimizeRaises_handled ==
    /\ pc = "optimize"
    /\ pending # <<>>
    /\ calls' = Append(calls, Call("optimize", TRUE, cur_step))
    /\ error' = Some("optimize")
    /\ pending' = Tail(pending)
    /\ UNCHANGED <<ppo_cfg, num_envs, cur_step, best_eval_ret, eval_is_best,
                   smooth_eval_return, pc, iter_t, traj, eval_log_info, eval_num,
                   eval_smooth, eval_back, eval_idx, rets, time_steps, eval_hist,
                   evals_made>>
    /\ UNCHANGED <<eval_traj, train_ep_return, oe, train_back, pass_batches, seen_vars>>
    /\ UNCHANGED gae_vars

\* Lines 136-137, agent.optimize raises: neither train_once nor train has a
\* handler, so the exception leaves both and the call that was running ends
\* with it.  flag marks the call that raised.
OptimizeRaises ==
    /\ pc = "optimize"
    /\ pending # <<>>
    /\ calls' = Append(calls, Call("optimize", TRUE, cur_step))
    /\ error' = Some("optimize")
    /\ pc' = "raised"
    /\ UNCHANGED <<ppo_cfg, num_envs, cur_step, best_eval_ret, eval_is_best,
                   smooth_eval_return, iter_t, traj, eval_log_info, eval_num,
                   eval_smooth, eval_back, eval_idx, rets, time_steps, eval_hist,
                   evals_made>>
    /\ UNCHANGED <<eval_traj, train_ep_return, oe, pending, train_back, pass_batches,
                   seen_vars>>
    /\ UNCHANGED gae_vars

NextFault == Next \/ OptimizeRaises

SpecFault == Init /\ [][NextFault]_vars

\* ------------------------------------------------------------------------
\* PPOEngine.train_once, called by a driver on trajectories of its own
\* ------------------------------------------------------------------------
MaxSamples == 3
MaxBatch == 2
MaxEpochs == 2
MaxTrainCalls == 2

OnceTrajs ==
    {[total_steps |-> n, n_samples |-> n, episode_returns |-> train_episode_returns(n)] :
        n \in 1..MaxSamples}

\* A driver calls engine.train_once(traj).
DriverTrainOnce ==
    /\ pc = "idle"
    /\ trains_made < MaxTrainCalls
    /\ traj' \in OnceTrajs
    /\ all_returns' = all_returns \o chain(traj'.episode_returns)
    /\ steps_sum' = steps_sum + traj'.total_steps
    /\ trains_made' = trains_made + 1
    /\ calls' = <<Call("train_once", FALSE, cur_step)>>
    /\ train_back' = "idle"
    /\ pc' = "train_once"
    /\ UNCHANGED <<ppo_cfg, num_envs, cur_step, best_eval_ret, eval_is_best,
                   smooth_eval_return, iter_t, eval_log_info, eval_num, eval_smooth,
                   eval_back, eval_idx, rets, time_steps, eval_hist, evals_made>>
    /\ UNCHANGED <<eval_traj, train_ep_return, error, oe, pending, pass_batches,
                   start_step>>
    /\ UNCHANGED gae_vars

\* PPOEngine.__init__, then nothing but train_once() calls.
InitTrainOnce ==
    /\ GaeIdle
    /\ \E ep \in 1..MaxEpochs, b \in 1..MaxBatch :
          ppo_cfg = [eval_interval |-> 1, log_interval |-> 1, max_steps |-> 0,
                     linear_decay_lr |-> FALSE, linear_decay_clip_range |-> FALSE,
                     smooth_eval_tau |-> Frac(7, 10), resume |-> FALSE,
                     opt_epochs |-> ep, batch_size |-> b, episode_steps |-> 1]
    /\ num_envs \in TrainEnvs
    /\ cur_step = 0
    /\ best_eval_ret = init_best_eval_ret
    /\ eval_is_best = FALSE
    /\ smooth_eval_return = None
    /\ pc = "idle"
    /\ iter_t = 0
    /\ traj = NoTraj
    /\ eval_log_info = None
    /\ eval_num = 0
    /\ eval_smooth = FALSE
    /\ eval_back = "idle"
    /\ eval_idx = 0
    /\ rets = <<>>
    /\ time_steps = <<>>
    /\ eval_traj = None
    /\ calls = <<>>
    /\ eval_hist = <<>>
    /\ evals_made = 0
    /\ train_ep_return = <<>>
    /\ error = None
    /\ oe = 0
    /\ pending = <<>>
    /\ train_back = "idle"
    /\ pass_batches = <<>>
    /\ all_returns = <<>>
    /\ steps_sum = 0
    /\ start_step = cur_step
    /\ trains_made = 0

NextTrainOnce ==
    \/ DriverTrainOnce
    \/ TrainOnce
    \/ EpochBegin
    \/ Optimize
    \/ EpochEnd
    \/ GetTrainLog

SpecTrainOnce == InitTrainOnce /\ [][NextTrainOnce]_vars

\* ------------------------------------------------------------------------
\* PPOEngine.train_once, called often enough to fill the history of returns
\* ------------------------------------------------------------------------
MaxHistoryCalls == 35

\* Rollouts of two steps in two slots.  shape[e] is the number of episodes
\* slot e completed; the slots complete their episodes in turn, so the arrival
\* numbers of one slot are not consecutive.
HistoryShapes == {<<0, 0>>, <<2, 1>>}

history_episode_returns(shape) ==
    [e \in 1..2 |-> [k \in 1..shape[e] |-> Len(all_returns) + 2 * (k - 1) + e]]

HistoryTrajs ==
    {[total_steps |-> 4, n_samples |-> 4, episode_returns |-> history_episode_returns(shape)] :
        shape \in HistoryShapes}

DriverHistory ==
    /\ pc = "idle"
    /\ trains_made < MaxHistoryCalls
    /\ traj' \in HistoryTrajs
    /\ all_returns' = all_returns \o chain(traj'.episode_returns)
    /\ steps_sum' = steps_sum + traj'.total_steps
    /\ trains_made' = trains_made + 1
    /\ calls' = <<Call("train_once", FALSE, cur_step)>>
    /\ train_back' = "idle"
    /\ pc' = "train_once"
    /\ UNCHANGED <<ppo_cfg, num_envs, cur_step, best_eval_ret, eval_is_best,
                   smooth_eval_return, iter_t, eval_log_info, eval_num, eval_smooth,
                   eval_back, eval_idx, rets, time_steps, eval_hist, evals_made>>
    /\ UNCHANGED <<eval_traj, train_ep_return, error, oe, pending, pass_batches,
                   start_step>>
    /\ UNCHANGED gae_vars

\* PPOEngine.__init__ with the default batch size, then train_once() calls.
InitHistory ==
    /\ GaeIdle
    /\ ppo_cfg = [eval_interval |-> 1, log_interval |-> 1, max_steps |-> 0,
                  linear_decay_lr |-> FALSE, linear_decay_clip_range |-> FALSE,
                  smooth_eval_tau |-> Frac(7, 10), resume |-> FALSE,
                  opt_epochs |-> 1, batch_size |-> 32, episode_steps |-> 2]
    /\ num_envs = 2
    /\ cur_step = 0
    /\ best_eval_ret = init_best_eval_ret
    /\ eval_is_best = FALSE
    /\ smooth_eval_return = None
    /\ pc = "idle"
    /\ iter_t = 0
    /\ traj = NoTraj
    /\ eval_log_info = None
    /\ eval_num = 0
    /\ eval_smooth = FALSE
    /\ eval_back = "idle"
    /\ eval_idx = 0
    /\ rets = <<>>
    /\ time_steps = <<>>
    /\ eval_traj = None
    /\ calls = <<>>
    /\ eval_hist = <<>>
    /\ evals_made = 0
    /\ train_ep_return = <<>>
    /\ error = None
    /\ oe = 0
    /\ pending = <<>>
    /\ train_back = "idle"
    /\ pass_batches = <<>>
    /\ all_returns = <<>>
    /\ steps_sum = 0
    /\ start_step = cur_step
    /\ trains_made = 0

NextHistory ==
    \/ DriverHistory
    \/ TrainOnce
    \/ EpochBegin
    \/ Optimize
    \/ EpochEnd
    \/ GetTrainLog

SpecHistory == InitHistory /\ [][NextHistory]_vars

\* ------------------------------------------------------------------------
\* Claims about eval() (checked under SpecEval)
\* ------------------------------------------------------------------------
Tau == ppo_cfg.smooth_eval_tau
HistLen == Len(eval_hist)

\* eval() is about to compute its statistics, with smoothing enabled
SmoothFinishing == pc = "eval" /\ eval_idx = eval_num /\ eval_smooth

RawMean == Frac(SeqSum(rets), Len(rets))

\* C5: the smoothed return after the first smoothing-enabled call is that
\* call's raw mean, and after every later one it is tau * (previous smoothed
\* return) + (1 - tau) * (raw mean of the call); with tau = 1/2 the value after
\* the second call is the average of the two raw means; a first call over the
\* episode returns [10, 20] with tau = 7/10 gives 15.
C5_HistInv ==
    /\ (HistLen >= 1) =>
          /\ eval_hist[1].smooth = eval_hist[1].mean
          /\ smooth_eval_return = Some(eval_hist[HistLen].smooth)
    /\ (HistLen = 0) => smooth_eval_return = None
    /\ \A i \in 2..HistLen :
          eval_hist[i].smooth =
              RAdd(RMul(Tau, eval_hist[i - 1].smooth),
                   RMul(RSub(R(1), Tau), eval_hist[i].mean))
    /\ (HistLen >= 2 /\ Tau = Frac(1, 2)) =>
          RMul(R(2), eval_hist[2].smooth) = RAdd(eval_hist[1].mean, eval_hist[2].mean)

C5_Step ==
    SmoothFinishing =>
        /\ smooth_eval_return' =
              Some(IF smooth_eval_return = None
                   THEN RawMean
                   ELSE RAdd(RMul(Tau, smooth_eval_return[1]),
                             RMul(RSub(R(1), Tau), RawMean)))
        /\ eval_hist' = Append(eval_hist, [mean |-> RawMean, smooth |-> smooth_eval_return'[1]])
        /\ (smooth_eval_return = None /\ rets = <<10, 20>> /\ Tau = Frac(7, 10))
              => smooth_eval_return' = Some(R(15))

MaxSmoothBefore(n) ==
    IF n = 1 THEN NegInf
    ELSE Some(CHOOSE m \in {eval_hist[i].smooth : i \in 1..(n - 1)} :
                 \A i \in 1..(n - 1) : ~RLt(m, eval_hist[i].smooth))

C6_HistInv ==
    /\ best_eval_ret = MaxSmoothBefore(HistLen + 1)
    /\ (HistLen = 0) => ~eval_is_best
    /\ (HistLen >= 1) =>
          eval_is_best = (\A i \in 1..(HistLen - 1) :
                             RLt(eval_hist[i].smooth, eval_hist[HistLen].smooth))
    /\ (HistLen >= 2 /\ eval_hist[HistLen].smooth = eval_hist[HistLen - 1].smooth)
          => ~eval_is_best

C6_Step ==
    SmoothFinishing =>
        LET new == smooth_eval_return'[1]
            was == MaxSmoothBefore(HistLen + 1)
        IN  /\ best_eval_ret = was
            /\ eval_is_best' = (was = NegInf \/ RLt(was[1], new))
            /\ best_eval_ret' = IF eval_is_best' THEN Some(new) ELSE best_eval_ret

\* C6 (the claim as checked): the flag and the best value are the strict
\* running maximum of the smoothed returns, in every state and at every step
\* that ends a smoothing-enabled call.
C6_BestFlag == [](C6_HistInv) /\ [][C6_Step]_vars

C6_Witness ==
    /\ pc = "idle"
    /\ HistLen = 3
    /\ eval_hist[1].smooth = R(10)
    /\ eval_hist[2].smooth = eval_hist[1].smooth
    /\ eval_hist[3].smooth = eval_hist[2].smooth
    /\ ~eval_is_best
    /\ best_eval_ret = Some(R(10))

\* What the loop of lines 78-95 has collected after at least one rollout
Collecting == pc = "eval" /\ eval_traj # None

\* C13, as claimed: a slot without a valid step (steps_til_done = 0) adds no
\* value to the returns eval() aggregates, so eval() holds one return per slot
\* that has a valid step.
C13_Original ==
    Collecting =>
        Len(rets) = Cardinality({i \in 1..Len(time_steps) : time_steps[i] > 0})

\* the sum of column ej of the first n rows of a T x N array
RECURSIVE ColumnPrefixSum(_, _, _)
ColumnPrefixSum(arr, n, ej) ==
    IF n = 0 THEN 0 ELSE ColumnPrefixSum(arr, n - 1, ej) + arr[n][ej]

\* the position in rets and time_steps of slot ej of the last rollout
SlotPos(ej) == (eval_idx - 1) * num_envs + ej

C14_Inv ==
    Collecting =>
        LET tr == eval_traj[1]
        IN  /\ Len(rets) = eval_idx * num_envs
            /\ Len(time_steps) = eval_idx * num_envs
            /\ \A ej \in 1..num_envs :
                  /\ rets[SlotPos(ej)] =
                        ColumnPrefixSum(tr.raw_rewards, tr.steps_til_done[ej], ej)
                  /\ time_steps[SlotPos(ej)] = tr.steps_til_done[ej]
            /\ eval_idx = eval_num => Len(rets) = eval_num * num_envs

\* a later rollout leaves what the earlier ones contributed as it is
C14_Step ==
    (pc = "eval" /\ pc' = "eval") =>
        /\ SubSeq(rets', 1, Len(rets)) = rets
        /\ SubSeq(time_steps', 1, Len(time_steps)) = time_steps

\* C14: eval(eval_num = k) over num_envs slots collects k * num_envs returns
\* and as many lengths; a return is the sum of the slot's raw_rewards over its
\* first steps_til_done steps, and a length is the slot's steps_til_done.
C14_EvalReturns == [](C14_Inv) /\ [][C14_Step]_vars

\* two rollouts; the last one, of one step, earned a raw reward the clipping
\* would have changed
C14_Witness ==
    /\ Collecting
    /\ eval_num = 2 /\ eval_idx = 2
    /\ eval_traj[1].raw_rewards = <<<<20>>>>
    /\ eval_traj[1].rewards = <<<<10>>>>
    /\ eval_traj[1].steps_til_done = <<1>>
    /\ rets = <<10, 20>>
    /\ time_steps = <<1, 1>>

\* ------------------------------------------------------------------------
\* Claims about train() (checked under Spec)
\* ------------------------------------------------------------------------
CallsOf(op) == {i \in DOMAIN calls : calls[i].op = op}
CountOf(op) == Cardinality(CallsOf(op))
TheCall(op) == calls[CHOOSE i \in CallsOf(op) : TRUE]

\* calls is the whole record of a completed iteration: the one after which
\* training stopped, or the one before the rollout about to start.
IterationStopped == pc = "done"
IterationContinued == pc = "rollout" /\ iter_t > 0
IterationCompleted == IterationStopped \/ IterationContinued
CompletedIndex == IF pc = "done" THEN iter_t ELSE iter_t - 1

\* C7 as stated: train() stops exactly when the step counter exceeds the
\* maximum: no rollout starts once cur_step > max_steps holds, and train() does
\* not return while cur_step <= max_steps.
C7_OriginalStep ==
    (cur_step > ppo_cfg.max_steps) => ~(pc = "rollout" /\ pc' = "train_once")

\* C7 as stated, as a formula: no step starts a rollout while cur_step >
\* max_steps, and train() has returned only with cur_step > max_steps.
C7_Original ==
    /\ [][C7_OriginalStep]_vars
    /\ []((pc = "done") => cur_step > ppo_cfg.max_steps)

\* C7 as amended: the stop test is made only at the end of an iteration.  The
\* first iteration always runs, whatever the counter is when train() is
\* entered; after an iteration train() returns iff cur_step > max_steps, so it
\* starts no later rollout once cur_step > max_steps holds, it does not return
\* while cur_step <= max_steps, and a counter equal to max_steps gives another
\* iteration.
C7_Inv ==
    /\ (pc = "rollout" /\ iter_t > 0) => cur_step <= ppo_cfg.max_steps
    /\ (pc = "done") => (cur_step > ppo_cfg.max_steps /\ CountOf("optimize") >= 1)
    /\ (pc = "decay") => cur_step <= ppo_cfg.max_steps

C7_Step ==
    /\ (pc = "check_stop") =>
          pc' = IF cur_step > ppo_cfg.max_steps THEN "done" ELSE "decay"
    /\ (pc = "rollout") => (pc' = "train_once" /\ CountOf("runner")' = 1)

\* C7 (amended, as checked): the stop test decides at the end of every
\* iteration and nowhere else.
C7_StopAtEndOfIteration == [](C7_Inv) /\ [][C7_Step]_vars

C7_Witness ==
    /\ pc = "rollout"
    /\ iter_t = 1
    /\ ~ppo_cfg.resume
    /\ cur_step = ppo_cfg.max_steps

\* C8: in every iteration whose index is a multiple of eval_interval the
\* evaluator runs exactly once and then save_model is called exactly once, with
\* is_best the flag that evaluation set and step the current step counter; in
\* every other iteration neither is called.
C8_Inv ==
    IterationCompleted =>
        IF CompletedIndex % ppo_cfg.eval_interval = 0
        THEN /\ CountOf("eval") = 1
             /\ Cardinality({i \in CallsOf("runner") : calls[i].flag}) = 1
             /\ CountOf("save_model") = 1
             /\ \A i \in CallsOf("eval") : \A j \in CallsOf("save_model") : i < j
             /\ \A i \in CallsOf("runner") : \A j \in CallsOf("save_model") : i < j
             /\ TheCall("save_model").step = cur_step
             /\ TheCall("save_model").flag = eval_is_best
             /\ HistLen >= 1
             /\ TheCall("save_model").flag =
                    (\A i \in 1..(HistLen - 1) :
                         RLt(eval_hist[i].smooth, eval_hist[HistLen].smooth))
        ELSE /\ CountOf("eval") = 0
             /\ CountOf("save_model") = 0
             /\ \A i \in CallsOf("runner") : ~calls[i].flag

C8_Step ==
    (pc = "save_model") =>
        /\ calls' = Append(calls, Call("save_model", eval_is_best, cur_step))
        /\ calls[Len(calls)] = Call("runner", TRUE, cur_step)

\* C8 (the claim as checked): every completed iteration has the evaluation and
\* the save_model call iff it is due, and save_model is called right after the
\* evaluation's rollout with the engine's flag and step.
C8_EvalThenSave == [](C8_Inv) /\ [][C8_Step]_vars

C8_Witness ==
    /\ pc = "done"
    /\ iter_t = 2
    /\ ppo_cfg.eval_interval = 2
    /\ CountOf("save_model") = 1
    /\ ~TheCall("save_model").flag
    /\ TheCall("save_model").step = cur_step
    /\ HistLen = 2

\* C9: in every iteration whose index is a multiple of log_interval exactly
\* one record is emitted to the logging sink, indexed by the current step
\* counter, and it holds the evaluation statistics iff the evaluator ran in
\* that iteration; in every other iteration no record is emitted.
C9_LogRecord ==
    IterationCompleted =>
        IF CompletedIndex % ppo_cfg.log_interval = 0
        THEN /\ CountOf("save_dict") = 1
             /\ TheCall("save_dict").step = cur_step
             /\ TheCall("save_dict").flag = (CountOf("eval") >= 1)
        ELSE CountOf("save_dict") = 0

C9_Witness ==
    /\ pc = "rollout"
    /\ iter_t = 2
    /\ ppo_cfg.log_interval = 1
    /\ ppo_cfg.eval_interval = 2
    /\ CountOf("save_dict") = 1
    /\ ~TheCall("save_dict").flag
    /\ CountOf("eval") = 0

PhaseOfCall(c) ==
    CASE c.op = "runner" /\ ~c.flag  -> 1     \* ROLLOUT
      [] c.op = "cal_gae"            -> 2     \* ADVANTAGE
      [] c.op = "optimize"           -> 3     \* OPTIMIZE
      [] c.op = "eval"               -> 4     \* EVALUATE
      [] c.op = "runner" /\ c.flag   -> 4
      [] c.op = "save_model"         -> 5     \* CHECKPOINT
      [] c.op = "save_dict"          -> 6     \* LOG
      [] c.op = "decay_lr"           -> 8     \* DECAY (7 is CHECK_STOP)
      [] c.op = "decay_clip_range"   -> 8
      [] OTHER                       -> 0

PhaseAt(i) ==
    IF calls[i].op = "eval_mode" THEN PhaseOfCall(calls[i + 1]) ELSE PhaseOfCall(calls[i])

DecayCount == CountOf("decay_lr") + CountOf("decay_clip_range")

C15_Inv ==
    /\ \A i, j \in DOMAIN calls : i < j => PhaseAt(i) <= PhaseAt(j)
    /\ pc = "log" =>
          /\ CountOf("save_dict") = 0
          /\ CountOf("eval") = (IF eval_due(iter_t) THEN 1 ELSE 0)
          /\ CountOf("save_model") = CountOf("eval")
    /\ pc = "check_stop" =>
          /\ CountOf("save_dict") = (IF log_due(iter_t) THEN 1 ELSE 0)
          /\ DecayCount = 0
    /\ IterationCompleted =>
          /\ Cardinality({i \in CallsOf("runner") : ~calls[i].flag}) = 1
          /\ CountOf("cal_gae") = 1
          /\ CountOf("optimize") >= 1
          /\ IterationStopped => DecayCount = 0

Uncounted == IF pc = "train_once" THEN traj.total_steps ELSE 0

C16_Inv ==
    /\ start_step \in (IF ppo_cfg.resume THEN ResumeSteps ELSE {0})
    /\ cur_step = start_step + steps_sum - Uncounted
    /\ \A i \in CallsOf("optimize") : calls[i].step = cur_step
    /\ IterationCompleted => cur_step >= start_step + CompletedIndex + 1

C16_Step ==
    /\ cur_step' >= cur_step
    /\ cur_step' # cur_step =>
          /\ pc = "train_once"
          /\ CountOf("optimize") = 0
          /\ cur_step' = cur_step + traj.total_steps
    /\ (pc = "rollout" /\ pc' = "train_once") => steps_sum' = steps_sum + traj'.total_steps

\* C16: after any number of completed iterations cur_step is the value
\* __init__ left (0, or the step load_model returned) plus the sum of
\* total_steps of the trajectories rolled out; it changes once per iteration,
\* before the first optimize call of the iteration, and never decreases.
C16_StepCounter == [](C16_Inv) /\ [][C16_Step]_vars

\* a resumed run of two iterations, of one step and of two
C16_Witness ==
    /\ IterationStopped
    /\ iter_t = 1
    /\ ppo_cfg.resume
    /\ start_step = 2
    /\ steps_sum = 3
    /\ cur_step = 5
    /\ traj.total_steps = 2

\* the eval() call of this iteration, and the calls made since
EvalCallAt == CHOOSE i \in CallsOf("eval") : TRUE
SinceEval == SubSeq(calls, EvalCallAt + 1, Len(calls))

C17_Inv ==
    pc = "eval" =>
        /\ CountOf("eval") = 1
        /\ Len(SinceEval) = 2 * eval_idx
        /\ \A k \in 1..eval_idx :
              /\ SinceEval[2 * k - 1] = Call("eval_mode", FALSE, cur_step)
              /\ SinceEval[2 * k] = Call("runner", TRUE, cur_step)

C17_Step ==
    (pc = "eval" \/ pc' = "eval") =>
        /\ cur_step' = cur_step
        /\ train_ep_return' = train_ep_return
        /\ all_returns' = all_returns

\* C17: eval() makes no optimize, save_model, decay_lr or decay_clip_range
\* call, calls eval_mode before each of its rollouts, and leaves the step
\* counter and the history of training returns as they are.
C17_EvalNoLearning == [](C17_Inv) /\ [][C17_Step]_vars

\* an evaluation rollout that collected steps and completed an episode, in an
\* engine that has counted steps and holds a training return
C17_Witness ==
    /\ pc = "eval"
    /\ eval_idx = 1
    /\ eval_traj[1].total_steps > 0
    /\ eval_traj[1].episode_returns[1] # <<>>
    /\ cur_step = 3
    /\ train_ep_return = <<1>>

\* the iterations train() has started
IterationsStarted == iter_t + 1

\* max_steps + 1 - the initial step counter, and at least one
IterationBound ==
    IF ppo_cfg.max_steps + 1 - start_step > 1
    THEN ppo_cfg.max_steps + 1 - start_step ELSE 1

\* C19: with trajectories of at least one step, a finite max_steps and
\* collaborators that return, train() returns, after at least one and at most
\* max_steps + 1 - (initial step counter) iterations.
C19_TrainReturns ==
    /\ [](traj.total_steps >= 1 \/ traj = NoTraj)
    /\ [](IterationsStarted <= IterationBound)
    /\ [](IterationStopped => CountOf("optimize") >= 1)
    /\ <>IterationStopped

\* a fresh run that used every iteration its budget allows
C19_Witness ==
    /\ IterationStopped
    /\ start_step = 0
    /\ ppo_cfg.max_steps = MaxSteps
    /\ IterationsStarted = MaxSteps + 1
    /\ IterationsStarted = IterationBound

\* train() has not taken a step since __init__ returned
JustConstructed == pc = "rollout" /\ iter_t = 0

C20_Inv ==
    /\ JustConstructed =>
          /\ cur_step = start_step
          /\ best_eval_ret = NegInf
          /\ smooth_eval_return = None
          /\ ~eval_is_best
    /\ HistLen = 1 =>
          /\ eval_is_best
          /\ best_eval_ret = Some(eval_hist[1].smooth)
          /\ smooth_eval_return = Some(eval_hist[1].mean)
    /\ (iter_t = 0 /\ CountOf("save_model") = 1) => TheCall("save_model").flag
    /\ (IterationCompleted /\ CompletedIndex = 0) => CountOf("save_model") = 1

\* C20: __init__ in resume mode restores the step counter only: the best
\* return starts at -inf and the smoothed return at None, so the first
\* smoothing-enabled evaluation sets the best flag and the save_model call of
\* iteration 0 is made with is_best = True.
C20_ResumeForgetsBest == C20_Inv

\* a resumed run whose first evaluation returned nothing but zeros saves the
\* model of iteration 0 as the best one
C20_Witness ==
    /\ ppo_cfg.resume
    /\ start_step > 0
    /\ iter_t = 0
    /\ pc = "log"
    /\ eval_hist = <<[mean |-> R(0), smooth |-> R(0)]>>
    /\ TheCall("save_model") = Call("save_model", TRUE, cur_step)

\* ------------------------------------------------------------------------
\* Claims about train_once() (checked under SpecTrainOnce)
\* ------------------------------------------------------------------------
\* ceil(n / b), from its definition
CeilDiv(n, b) == CHOOSE k \in 0..n : k * b >= n /\ (k - 1) * b < n

\* the DataLoader has just been exhausted: pass_batches is one whole pass
PassOver == pc = "optimize" /\ pending = <<>>

\* the loops of lines 134-137 are over
LoopsOver == pc = "epoch" /\ oe = ppo_cfg.opt_epochs

PassSizes == [k \in 1..Len(pass_batches) |-> Cardinality(pass_batches[k])]

\* C11: with N samples and batch size B, every pass makes exactly ceil(N/B)
\* optimize calls, on minibatches whose sizes sum to N and that hold every
\* sample exactly once; a whole train_once makes opt_epochs * ceil(N/B) calls.
C11_BatchingComplete ==
    LET N == traj.n_samples
        B == ppo_cfg.batch_size
    IN  /\ PassOver =>
            /\ Len(pass_batches) = CeilDiv(N, B)
            /\ SeqSum(PassSizes) = N
            /\ \A s \in 1..N :
                  Cardinality({k \in 1..Len(pass_batches) : s \in pass_batches[k]}) = 1
            /\ CountOf("optimize") = (oe + 1) * CeilDiv(N, B)
        /\ LoopsOver => CountOf("optimize") = ppo_cfg.opt_epochs * CeilDiv(N, B)

\* the second pass over three samples in minibatches of two: a full minibatch
\* and the remainder
C11_Witness ==
    /\ PassOver
    /\ oe = 1
    /\ traj.n_samples = 3
    /\ ppo_cfg.batch_size = 2
    /\ PassSizes = <<2, 1>>
    /\ CountOf("optimize") = 4

\* ------------------------------------------------------------------------
\* Claims about a failing agent (checked under SpecFault)
\* ------------------------------------------------------------------------
Raised == error # None

C12_Inv ==
    Raised =>
        /\ pc = "raised"
        /\ error = Some("optimize")
        /\ calls[Len(calls)] = Call("optimize", TRUE, cur_step)
        /\ Cardinality({k \in 1..Len(calls) : calls[k].op = "optimize" /\ calls[k].flag}) = 1
        /\ CountOf("eval") = 0
        /\ CountOf("save_model") = 0
        /\ CountOf("save_dict") = 0
        /\ CountOf("decay_lr") = 0
        /\ CountOf("decay_clip_range") = 0

\* no step is taken once the exception has left train()
C12_Step == ~Raised /\ (Raised' => calls' = Append(calls, Call("optimize", TRUE, cur_step)))

\* C12: when agent.optimize raises on a minibatch, train() ends with that
\* error, and after the failing call there is no further optimize call, no
\* evaluation, no save_model, no log record and no decay call.
C12_OptimizeFaultEndsTrain == [](C12_Inv) /\ [][C12_Step]_vars

\* the fault hits the second pass of the second iteration
C12_Witness ==
    /\ Raised
    /\ pc = "raised"
    /\ iter_t = 1
    /\ oe = 1
    /\ CountOf("optimize") = 2

\* ------------------------------------------------------------------------
\* Claims about the history of training returns (checked under SpecHistory)
\* ------------------------------------------------------------------------
\* the last n entries of a sequence
LastOf(q, n) == SubSeq(q, Len(q) - n + 1, Len(q))

\* the returns of the trajectory in hand, slot by slot
NewReturns == chain(traj.episode_returns)

C18_Inv ==
    /\ Len(train_ep_return) <= 100
    /\ pc = "idle" =>
          train_ep_return = LastOf(all_returns, Min(100, Len(all_returns)))

\* get_train_log on a full history: as many of the oldest entries leave as
\* new ones arrive
C18_Step ==
    (pc = "epoch" /\ pc' = "idle" /\ Len(train_ep_return) = 100) =>
        train_ep_return' =
            SubSeq(train_ep_return, Len(NewReturns) + 1, 100) \o NewReturns

\* C18: the history of training returns holds at most 100 entries: the most
\* recent min(100, n) of the n returns reported so far, in arrival order
\* (slot by slot within a trajectory); a push onto a full history drops the
\* oldest entry.
C18_RecentReturns == [](C18_Inv) /\ [][C18_Step]_vars

\* 102 returns have arrived, the last two onto a full history
C18_Witness ==
    /\ pc = "idle"
    /\ Len(all_returns) = 102
    /\ Len(chain(traj.episode_returns)) = 3
    /\ Len(train_ep_return) = 100
    /\ train_ep_return[1] = all_returns[3]
    /\ LastOf(train_ep_return, 3) = <<100, 102, 101>>
====
